---- MODULE Spec2Model ----
(***************************************************************************)
(* Model of the M3U8 playlist extractor (src/m3u8_extractor.py).           *)
(*                                                                         *)
(* Texts are TLA+ strings; positions are 1-based.  Python dicts are TLA+   *)
(* functions whose DOMAIN is the set of keys present; a value obtained     *)
(* with dict.get() is an optional: <<>> for None, <<v>> for the value v.   *)
(* A float is kept as an exact decimal [neg, mant, scale], normalised      *)
(* (no trailing zero in the fraction), so that -1, -1.0 and -1.00 are one  *)
(* value.  result['timestamp'] (the wall clock) is left out of the model.  *)
(***************************************************************************)
EXTENDS Integers, Sequences, FiniteSets, TLC

VARIABLES
    content,    \* parse_m3u8: the text being parsed
    base_url,   \* parse_m3u8: the URL the text was fetched from
    lines,      \* parse_m3u8: content.strip().split('\n')
    i,          \* parse_m3u8: the cursor (0-based, as in the source)
    result,     \* parse_m3u8: the model under construction
    pc,         \* parse_m3u8: "scan", "returned" or the exception raised
    net,        \* the network: URL -> response (None when the request fails)
    xurl,       \* extract_all: the url argument
    xpc,        \* extract_all: position
    xresult,    \* extract_all: the root model, streams being resolved
    xk,         \* extract_all: index of the next stream of the for loop
    fetched     \* fetch_playlist: the URLs requested so far, in order

vars == <<content, base_url, lines, i, result, pc, net, xurl, xpc, xresult, xk, fetched>>

-----------------------------------------------------------------------------
(* Python str primitives *)

None == <<>>
Some(v) == <<v>>

Min(S) == CHOOSE x \in S : \A y \in S : x <= y
Max(S) == CHOOSE x \in S : \A y \in S : x >= y

ChAt(s, p) == IF 1 <= p /\ p <= Len(s) THEN SubSeq(s, p, p) ELSE ""
From(s, p) == IF p > Len(s) THEN "" ELSE SubSeq(s, p, Len(s))
Upto(s, p) == IF p < 1 THEN "" ELSE SubSeq(s, 1, p)
StartsAt(s, p, pat) ==
    /\ p >= 1
    /\ p + Len(pat) - 1 <= Len(s)
    /\ SubSeq(s, p, p + Len(pat) - 1) = pat
startswith(s, pre) == StartsAt(s, 1, pre)
Contains(s, c) == \E p \in 1..Len(s) : ChAt(s, p) = c

Digit == {"0", "1", "2", "3", "4", "5", "6", "7", "8", "9"}
Space == {" ", "\t", "\r", "\n", "\f"}

strip(s) ==
    LET keep == {p \in 1..Len(s) : ChAt(s, p) \notin Space}
    IN  IF keep = {} THEN "" ELSE SubSeq(s, Min(keep), Max(keep))

RECURSIVE split(_, _)
split(s, sep) ==
    LET at == {p \in 1..Len(s) : ChAt(s, p) = sep}
    IN  IF at = {} THEN <<s>>
        ELSE <<Upto(s, Min(at) - 1)>> \o split(From(s, Min(at) + 1), sep)

split1(s, sep) ==
    LET at == {p \in 1..Len(s) : ChAt(s, p) = sep}
    IN  IF at = {} THEN <<s>>
        ELSE <<Upto(s, Min(at) - 1), From(s, Min(at) + 1)>>

\* number of consecutive characters of class C starting at p
RECURSIVE RunIn(_, _, _)
RunIn(s, p, C) == IF ChAt(s, p) \in C THEN 1 + RunIn(s, p + 1, C) ELSE 0

\* number of consecutive characters not in Stop starting at p
RECURSIVE RunNotIn(_, _, _)
RunNotIn(s, p, Stop) ==
    IF p <= Len(s) /\ ChAt(s, p) \notin Stop THEN 1 + RunNotIn(s, p + 1, Stop) ELSE 0

DigitVal(c) == CHOOSE d \in 0..9 : ChAt("0123456789", d + 1) = c

RECURSIVE StrToNat(_)
StrToNat(s) ==
    IF s = "" THEN 0
    ELSE StrToNat(Upto(s, Len(s) - 1)) * 10 + DigitVal(ChAt(s, Len(s)))

AllIn(s, C) == \A p \in 1..Len(s) : ChAt(s, p) \in C

\* int(s): surrounding whitespace and one sign are accepted
IntBody(s) == IF ChAt(strip(s), 1) \in {"+", "-"} THEN From(strip(s), 2) ELSE strip(s)
IntOk(s) == IntBody(s) # "" /\ AllIn(IntBody(s), Digit)
IntVal(s) == IF ChAt(strip(s), 1) = "-" THEN 0 - StrToNat(IntBody(s)) ELSE StrToNat(IntBody(s))

\* float(s) for a token over digits, '.' and '-'
FloatBody(s) == IF ChAt(s, 1) = "-" THEN From(s, 2) ELSE s
FloatOk(s) ==
    /\ AllIn(FloatBody(s), Digit \cup {"."})
    /\ Cardinality({p \in 1..Len(FloatBody(s)) : ChAt(FloatBody(s), p) = "."}) <= 1
    /\ \E p \in 1..Len(FloatBody(s)) : ChAt(FloatBody(s), p) \in Digit

RECURSIVE DropZeros(_)
DropZeros(s) == IF s # "" /\ ChAt(s, Len(s)) = "0" THEN DropZeros(Upto(s, Len(s) - 1)) ELSE s

FloatVal(s) ==
    LET parts == split1(FloatBody(s), ".")
        whole == parts[1]
        frac  == IF Len(parts) = 2 THEN DropZeros(parts[2]) ELSE ""
    IN  [neg |-> ChAt(s, 1) = "-", mant |-> StrToNat(whole \o frac), scale |-> Len(frac)]


-----------------------------------------------------------------------------
(* Python dict primitives *)

Field(k, v) == k :> v
NoField == <<>>
get(d, k) == IF k \in DOMAIN d THEN Some(d[k]) ELSE None
\* dict.get() of a key whose stored value is itself None or a value
getopt(d, k) == IF k \in DOMAIN d THEN d[k] ELSE None

-----------------------------------------------------------------------------
(* urllib.parse.urljoin, for references without dot segments or a scheme *)

CutAt(s, Stop) == Upto(s, RunNotIn(s, 1, Stop))
NoFrag(u) == CutAt(u, {"#"})
NoQuery(u) == CutAt(u, {"#", "?"})
AuthorityStart(u) ==
    LET at == {p \in 1..Len(u) : StartsAt(u, p, "://")}
    IN  IF at = {} THEN 1 ELSE Min(at) + 3
Origin(u) ==
    LET a == AuthorityStart(u)
    IN  Upto(NoQuery(u), a - 1 + RunNotIn(NoQuery(u), a, {"/"}))
Scheme(u) == Upto(u, AuthorityStart(u) - 3)
Dir(u) ==
    LET path  == NoQuery(u)
        slash == {p \in AuthorityStart(u)..Len(path) : ChAt(path, p) = "/"}
    IN  IF slash = {} THEN Origin(u) \o "/" ELSE Upto(path, Max(slash))

urljoin(base, url) ==
    IF url = "" THEN base
    ELSE IF startswith(url, "#") THEN NoFrag(base) \o url
    ELSE IF startswith(url, "?") THEN NoQuery(base) \o url
    ELSE IF startswith(url, "//") THEN Scheme(base) \o url
    ELSE IF startswith(url, "/") THEN Origin(base) \o url
    ELSE Dir(base) \o url

\* lines 65-66, 80-81, 111-112: a line not starting with 'http' is resolved
ResolveUrl(base, line) == IF startswith(line, "http") THEN line ELSE urljoin(base, line)

-----------------------------------------------------------------------------
(* Regular-expression searches of the decoders.  X_At(s) is the set of     *)
(* positions where pattern X matches; re.search takes the leftmost one.    *)

First(S) == IF S = {} THEN 0 ELSE Min(S)

\* key="([^"]+)" ; key is given with its =" suffix
QuotedAt(s, key) ==
    {p \in 1..Len(s) :
        /\ StartsAt(s, p, key)
        /\ RunNotIn(s, p + Len(key), {"\""}) >= 1
        /\ ChAt(s, p + Len(key) + RunNotIn(s, p + Len(key), {"\""})) = "\""}
QuotedGroup(s, key) ==
    LET q == First(QuotedAt(s, key)) + Len(key)
    IN  SubSeq(s, q, q + RunNotIn(s, q, {"\""}) - 1)
QuotedField(s, key, name) ==
    IF QuotedAt(s, key) # {} THEN Field(name, QuotedGroup(s, key)) ELSE NoField

\* key=(class+) : the leftmost key followed by at least one character of C
TokenAt(s, key, C) == {p \in 1..Len(s) : StartsAt(s, p, key) /\ ChAt(s, p + Len(key)) \in C}
TokenGroup(s, key, C) ==
    LET q == First(TokenAt(s, key, C)) + Len(key)
    IN  SubSeq(s, q, q + RunIn(s, q, C) - 1)

\* RESOLUTION=(\d+x\d+)
ResolutionAt(s) ==
    {p \in TokenAt(s, "RESOLUTION=", Digit) :
        LET q == p + 11 + RunIn(s, p + 11, Digit)
        IN  ChAt(s, q) = "x" /\ ChAt(s, q + 1) \in Digit}
ResolutionGroup(s) ==
    LET p == First(ResolutionAt(s)) + 11
        q == p + RunIn(s, p, Digit)
    IN  SubSeq(s, p, q + RunIn(s, q + 1, Digit))

parse_stream_inf(line) ==
    Field("type", "stream")
    @@ (IF TokenAt(line, "BANDWIDTH=", Digit) # {}
        THEN Field("bandwidth", StrToNat(TokenGroup(line, "BANDWIDTH=", Digit)))
        ELSE NoField)
    @@ (IF ResolutionAt(line) # {} THEN Field("resolution", ResolutionGroup(line)) ELSE NoField)
    @@ QuotedField(line, "CODECS=\"", "codecs")

\* #EXTINF:([\d.-]+)
DurChars == Digit \cup {".", "-"}
HasDurationToken(line) == TokenAt(line, "#EXTINF:", DurChars) # {}
DurationToken(line) == TokenGroup(line, "#EXTINF:", DurChars)

\* line 180: float() of a token that is no float literal raises ValueError
parse_extinf_raises(line) ==
    /\ HasDurationToken(line)
    /\ DurationToken(line) # "-1"
    /\ ~FloatOk(DurationToken(line))

ExtinfTitle(line) == IF Contains(line, ",") THEN strip(split1(line, ",")[2]) ELSE ""

\* parse_extinf with the sentinel test of line 179 dropped
parse_extinf_NoSentinel(line) ==
    Field("type", "segment")
    @@ (IF HasDurationToken(line)
        THEN Field("duration", FloatVal(DurationToken(line)))
        ELSE NoField)
    @@ QuotedField(line, "tvg-logo=\"", "logo")
    @@ QuotedField(line, "group-title=\"", "group_title")
    @@ (IF ExtinfTitle(line) # "" THEN Field("title", ExtinfTitle(line)) ELSE NoField)

parse_extinf(line) ==
    Field("type", "segment")
    @@ (IF HasDurationToken(line) /\ DurationToken(line) # "-1"
        THEN Field("duration", FloatVal(DurationToken(line)))
        ELSE NoField)
    @@ QuotedField(line, "tvg-logo=\"", "logo")
    @@ QuotedField(line, "group-title=\"", "group_title")
    @@ (IF ExtinfTitle(line) # "" THEN Field("title", ExtinfTitle(line)) ELSE NoField)

\* \d{1,2}:\d{2}(AM|PM), case-insensitive: the length matched at p, or 0
TimeTail(s, q) ==
    /\ ChAt(s, q) = ":"
    /\ ChAt(s, q + 1) \in Digit
    /\ ChAt(s, q + 2) \in Digit
    /\ ChAt(s, q + 3) \in {"A", "a", "P", "p"}
    /\ ChAt(s, q + 4) \in {"M", "m"}
TimeLen(s, p) ==
    IF ChAt(s, p) \in Digit /\ ChAt(s, p + 1) \in Digit /\ TimeTail(s, p + 2) THEN 7
    ELSE IF ChAt(s, p) \in Digit /\ TimeTail(s, p + 1) THEN 6
    ELSE 0
TimeAt(s) == {p \in 1..Len(s) : TimeLen(s, p) > 0}

\* \d{1,2}:\d{2}(AM|PM)\s*\|
TimePipeAt(s) ==
    {p \in TimeAt(s) :
        ChAt(s, p + TimeLen(s, p) + RunIn(s, p + TimeLen(s, p), Space)) = "|"}

\* is_event_entry with the \s* of the pattern dropped
is_event_entry_NoSpace(title) ==
    \E p \in TimeAt(title) : ChAt(title, p + TimeLen(title, p)) = "|"

is_event_entry(title) == TimePipeAt(title) # {}

\* \((\d{1,2}/\d{1,2}/\d{2,4})\) : the length of the group matched at p, or 0
DateLen(s, p) ==
    LET a == RunIn(s, p + 1, Digit)
        b == RunIn(s, p + 2 + a, Digit)
        c == RunIn(s, p + 3 + a + b, Digit)
    IN  IF /\ ChAt(s, p) = "("
           /\ a \in 1..2 /\ ChAt(s, p + 1 + a) = "/"
           /\ b \in 1..2 /\ ChAt(s, p + 2 + a + b) = "/"
           /\ c \in 2..4 /\ ChAt(s, p + 3 + a + b + c) = ")"
        THEN a + b + c + 2
        ELSE 0
DateAt(s) == {p \in 1..Len(s) : DateLen(s, p) > 0}

\* \[([^\]]+)\]$
BracketAt(s) ==
    {p \in 1..Len(s) :
        /\ ChAt(s, p) = "["
        /\ RunNotIn(s, p + 1, {"]"}) >= 1
        /\ p + 1 + RunNotIn(s, p + 1, {"]"}) = Len(s)}
BracketGroup(s) == SubSeq(s, First(BracketAt(s)) + 1, Len(s) - 1)

\* re.sub(r'\s*\[[^\]]+\]$', '', s)
RECURSIVE SpacesBefore(_, _)
SpacesBefore(s, p) == IF ChAt(s, p - 1) \in Space THEN 1 + SpacesBefore(s, p - 1) ELSE 0
\* StripBracket with the substitution of line 231 dropped
StripBracket_Keep(s) == s

StripBracket(s) ==
    IF BracketAt(s) = {} THEN s
    ELSE Upto(s, First(BracketAt(s)) - 1 - SpacesBefore(s, First(BracketAt(s))))

\* re.sub(r'\d{1,2}:\d{2}(?:AM|PM)\s*\|?', '', s, flags=re.IGNORECASE)
RECURSIVE StripTimes(_)
StripTimes(s) ==
    IF TimeAt(s) = {} THEN s
    ELSE LET p == First(TimeAt(s))
             q == p + TimeLen(s, p) + RunIn(s, p + TimeLen(s, p), Space)
             r == IF ChAt(s, q) = "|" THEN q + 1 ELSE q
         IN  Upto(s, p - 1) \o StripTimes(From(s, r))

EventDescription(title) == strip(split1(title, "|")[2])

parse_event_title(title) ==
    (IF TimeAt(title) # {}
     THEN Field("event_time",
                SubSeq(title, First(TimeAt(title)),
                       First(TimeAt(title)) + TimeLen(title, First(TimeAt(title))) - 1))
     ELSE NoField)
    @@ (IF DateAt(title) # {}
        THEN Field("event_date",
                   SubSeq(title, First(DateAt(title)) + 1,
                          First(DateAt(title)) + DateLen(title, First(DateAt(title)))))
        ELSE NoField)
    @@ (IF Contains(title, "|")
        THEN (IF BracketAt(EventDescription(title)) # {}
              THEN Field("channel_name", strip(BracketGroup(EventDescription(title))))
                   @@ Field("event_title", strip(StripBracket(EventDescription(title))))
              ELSE Field("event_title", EventDescription(title)))
        ELSE Field("event_title", strip(StripBracket(StripTimes(title)))))

\* line 268: float() of a DURATION token that is no float literal raises ValueError
DateDurChars == Digit \cup {"."}
parse_daterange_raises(line) ==
    /\ TokenAt(line, "DURATION=", DateDurChars) # {}
    /\ ~FloatOk(TokenGroup(line, "DURATION=", DateDurChars))

parse_daterange(line) ==
    Field("type", "daterange")
    @@ QuotedField(line, "ID=\"", "id")
    @@ QuotedField(line, "START-DATE=\"", "start_date")
    @@ QuotedField(line, "END-DATE=\"", "end_date")
    @@ (IF TokenAt(line, "DURATION=", DateDurChars) # {}
        THEN Field("duration", FloatVal(TokenGroup(line, "DURATION=", DateDurChars)))
        ELSE NoField)

-----------------------------------------------------------------------------
(* parse_m3u8: one pass over the lines.  A pass is the record               *)
(* [lines, i, result, pc, base_url]; every branch of the while loop is an   *)
(* operator from a pass to the pass after the iteration.                    *)

EmptyResult(base) ==
    [base_url |-> base, streams |-> <<>>, segments |-> <<>>, events |-> <<>>,
     grouped_events |-> <<>>, metadata |-> <<>>]

StartPass(text, base) ==
    [lines |-> split(strip(text), "\n"), i |-> 0, result |-> EmptyResult(base),
     pc |-> "scan", base_url |-> base]

CurLine(st) == strip(st.lines[st.i + 1])
HasNext(st) == st.i + 1 < Len(st.lines)
NextLine(st) == strip(st.lines[st.i + 2])
Raise(st, e) == [st EXCEPT !.pc = e]
Advance(st, n, res) == [st EXCEPT !.i = st.i + n, !.result = res]
SetMeta(res, k, v) == [res EXCEPT !.metadata = Field(k, v) @@ @]
AddEvent(res, ev) == [res EXCEPT !.events = Append(@, ev)]

\* the if/elif chain of lines 51-139
Branch(line) ==
    IF startswith(line, "#EXT-X-VERSION") THEN "version"
    ELSE IF startswith(line, "#EXT-X-TARGETDURATION") THEN "target_duration"
    ELSE IF startswith(line, "#EXT-X-MEDIA-SEQUENCE") THEN "media_sequence"
    ELSE IF startswith(line, "#EXT-X-STREAM-INF") THEN "stream_inf"
    ELSE IF startswith(line, "#EXTINF") THEN "extinf"
    ELSE IF startswith(line, "#EXT-X-PROGRAM-DATE-TIME") THEN "program_date_time"
    ELSE IF startswith(line, "#EXT-X-DATERANGE") THEN "daterange"
    ELSE IF startswith(line, "#EXT-X-CUE-OUT") THEN "cue_out"
    ELSE IF startswith(line, "#EXT-X-CUE-IN") THEN "cue_in"
    ELSE "other"

VersionStep(st) ==
    LET parts == split(CurLine(st), ":")
    IN  IF Len(parts) < 2 THEN Raise(st, "IndexError")
        ELSE Advance(st, 1, SetMeta(st.result, "version", parts[2]))

IntMetaStep(st, key) ==
    LET parts == split(CurLine(st), ":")
    IN  IF Len(parts) < 2 THEN Raise(st, "IndexError")
        ELSE IF ~IntOk(parts[2]) THEN Raise(st, "ValueError")
        ELSE Advance(st, 1, SetMeta(st.result, key, IntVal(parts[2])))

TargetDurationStep(st) == IntMetaStep(st, "target_duration")
MediaSequenceStep(st) == IntMetaStep(st, "media_sequence")

\* StreamInfStep with the bug "recorded without a URL": the last line is kept
StreamInfStep_KeepsLast(st) ==
    Advance(st, 2,
        [st.result EXCEPT !.streams =
            Append(@, IF HasNext(st)
                      THEN Field("url", ResolveUrl(st.base_url, NextLine(st)))
                           @@ parse_stream_inf(CurLine(st))
                      ELSE parse_stream_inf(CurLine(st)))])

StreamInfStep(st) ==
    IF HasNext(st)
    THEN Advance(st, 2,
            [st.result EXCEPT !.streams =
                Append(@, Field("url", ResolveUrl(st.base_url, NextLine(st)))
                          @@ parse_stream_inf(CurLine(st)))])
    ELSE Advance(st, 2, st.result)

\* lines 79-88: the channel entry of an event title
EventInfo(extinf_info, base, next_line) ==
    Field("url", ResolveUrl(base, next_line))
    @@ Field("duration", get(extinf_info, "duration"))
    @@ Field("logo", get(extinf_info, "logo"))
    @@ Field("group_title", get(extinf_info, "group_title"))
    @@ parse_event_title(extinf_info.title)

EventTitleOf(event_info) ==
    IF "event_title" \in DOMAIN event_info THEN event_info.event_title ELSE "Unknown Event"

ChannelRef(event_info) ==
    [channel_name |-> get(event_info, "channel_name"),
     url          |-> get(event_info, "url"),
     logo         |-> getopt(event_info, "logo"),
     duration     |-> getopt(event_info, "duration")]

NewGroup(event_info) ==
    [event_title |-> EventTitleOf(event_info),
     event_time  |-> get(event_info, "event_time"),
     event_date  |-> get(event_info, "event_date"),
     category    |-> get(event_info, "category"),
     channels    |-> <<>>]

\* GroupEvent with the bug "no repeat": an entry whose group exists adds no channel
GroupEvent_NoRepeat(grouped, event_info) ==
    LET event_title == EventTitleOf(event_info)
    IN  IF event_title \in DOMAIN grouped THEN grouped
        ELSE Field(event_title,
                   [NewGroup(event_info) EXCEPT !.channels = <<ChannelRef(event_info)>>])
             @@ grouped

\* GroupEvent with the bug "last writer wins": a later entry re-seeds the group
GroupEvent_LastWins(grouped, event_info) ==
    LET event_title == EventTitleOf(event_info)
        old == IF event_title \in DOMAIN grouped THEN grouped[event_title].channels ELSE <<>>
    IN  Field(event_title,
              [NewGroup(event_info) EXCEPT !.channels = Append(old, ChannelRef(event_info))])
        @@ grouped

\* lines 90-106: upsert into grouped_events
GroupEvent(grouped, event_info) ==
    LET event_title == EventTitleOf(event_info)
        seeded == IF event_title \in DOMAIN grouped THEN grouped
                  ELSE Field(event_title, NewGroup(event_info)) @@ grouped
    IN  [seeded EXCEPT ![event_title].channels = Append(@, ChannelRef(event_info))]

\* line 78
IsChannelEntry(extinf_info) ==
    "title" \in DOMAIN extinf_info /\ is_event_entry(extinf_info.title)

ExtinfStep(st) ==
    IF parse_extinf_raises(CurLine(st)) THEN Raise(st, "ValueError")
    ELSE IF ~HasNext(st) THEN Advance(st, 2, st.result)
    ELSE LET extinf_info == parse_extinf(CurLine(st))
             event_info  == EventInfo(extinf_info, st.base_url, NextLine(st))
         IN  IF IsChannelEntry(extinf_info)
             THEN Advance(st, 2,
                     [st.result EXCEPT
                         !.grouped_events = GroupEvent(@, event_info),
                         !.events = Append(@, event_info)])
             ELSE Advance(st, 2,
                     [st.result EXCEPT !.segments =
                         Append(@, Field("url", ResolveUrl(st.base_url, NextLine(st)))
                                   @@ extinf_info)])

ProgramDateTimeStep(st) ==
    LET parts == split1(CurLine(st), ":")
    IN  IF Len(parts) < 2 THEN Raise(st, "IndexError")
        ELSE Advance(st, 1,
                AddEvent(st.result,
                    [type |-> "program_date_time", timestamp |-> parts[2],
                     line_number |-> st.i]))

DateRangeStep(st) ==
    IF parse_daterange_raises(CurLine(st)) THEN Raise(st, "ValueError")
    ELSE Advance(st, 1, AddEvent(st.result, parse_daterange(CurLine(st))))

CueOutStep(st) ==
    Advance(st, 1,
        AddEvent(st.result,
            [type |-> "cue_out",
             duration |-> IF Contains(CurLine(st), ":")
                          THEN Some(split1(CurLine(st), ":")[2]) ELSE None,
             line_number |-> st.i]))

CueInStep(st) ==
    Advance(st, 1, AddEvent(st.result, [type |-> "cue_in", line_number |-> st.i]))

OtherStep(st) == Advance(st, 1, st.result)

\* one iteration of the while loop of lines 48-146
Step(st) ==
    CASE Branch(CurLine(st)) = "version" -> VersionStep(st)
      [] Branch(CurLine(st)) = "target_duration" -> TargetDurationStep(st)
      [] Branch(CurLine(st)) = "media_sequence" -> MediaSequenceStep(st)
      [] Branch(CurLine(st)) = "stream_inf" -> StreamInfStep(st)
      [] Branch(CurLine(st)) = "extinf" -> ExtinfStep(st)
      [] Branch(CurLine(st)) = "program_date_time" -> ProgramDateTimeStep(st)
      [] Branch(CurLine(st)) = "daterange" -> DateRangeStep(st)
      [] Branch(CurLine(st)) = "cue_out" -> CueOutStep(st)
      [] Branch(CurLine(st)) = "cue_in" -> CueInStep(st)
      [] OTHER -> OtherStep(st)

\* the whole pass: the pass at its return or at the exception
RECURSIVE RunPass(_)
RunPass(st) ==
    IF st.pc # "scan" THEN st
    ELSE IF st.i >= Len(st.lines) THEN [st EXCEPT !.pc = "returned"]
    ELSE RunPass(Step(st))

parse_m3u8(text, base) == RunPass(StartPass(text, base))

-----------------------------------------------------------------------------
(* Inputs: the playlist texts given to parse_m3u8 *)

MaxLines == 3          \* lines of a text drawn from LinePool
MaxTitleTokens == 4    \* tokens of a generated EXTINF title
MaxDurLen == 4         \* characters of a generated EXTINF duration token
MaxEntries == 3        \* EXTINF/URI pairs of a generated guide playlist

RootUrl == "http://h/d/r.m3u8"

SeqsUpTo(S, n) == UNION {[1..k -> S] : k \in 0..n}

RECURSIVE Concat(_, _)
Concat(seq, sep) ==
    IF seq = <<>> THEN ""
    ELSE IF Len(seq) = 1 THEN seq[1]
    ELSE seq[1] \o sep \o Concat(Tail(seq), sep)

LinePool ==
    {"#EXT-X-VERSION:3",
     "#EXT-X-TARGETDURATION:10",
     "#EXT-X-MEDIA-SEQUENCE",
     "#EXT-X-STREAM-INF:BANDWIDTH=800,RESOLUTION=640x360,CODECS=\"avc1\"",
     "#EXTINF:-1 tvg-logo=\"l.png\" group-title=\"Sports\",01:00AM|Finals (09/23/25) [Feed A]",
     "#EXTINF:9.5,News Update",
     "#EXT-X-CUE-OUT:30",
     "#EXT-X-CUE-IN",
     "http://h/a.m3u8",
     " seg.ts\r"}

LineTexts == {Concat(ls, "\n") : ls \in SeqsUpTo(LinePool, MaxLines)}

\* the directives with a date in them, alone, after an #EXTINF and in a playlist
DatedLines ==
    {"#EXT-X-PROGRAM-DATE-TIME:2025-09-23T01:00:00Z",
     "#EXT-X-DATERANGE:ID=\"ad1\",START-DATE=\"2025-09-23\",DURATION=30.5"}
DatedTexts ==
    UNION {{l, "#EXTINF:9.5,News Update\n" \o l, l \o "\n" \o l,
            "#EXTM3U\n" \o l \o "\n#EXTINF:9.5,News Update\n seg.ts\r\n#EXT-X-CUE-IN"} :
              l \in DatedLines}

MalformedLines ==
    {"#EXT-X-VERSION", "#EXT-X-VERSION:", "#EXT-X-TARGETDURATION", "#EXT-X-TARGETDURATION:x",
     "#EXT-X-MEDIA-SEQUENCE:", "#EXT-X-MEDIA-SEQUENCE: 7 ", "#EXT-X-STREAM-INF", "#EXTINF",
     "#EXTINF:1.2.3,a", "#EXTINF:10,", "#EXT-X-PROGRAM-DATE-TIME",
     "#EXT-X-DATERANGE:ID=\"ad1\",DURATION=1.2.3", "#EXT-X-DATERANGE:START-DATE=\"2025-09-23\"",
     "#EXT-X-CUE-OUT"}

MalformedTexts ==
    UNION {{l, l \o "\nseg.ts", "#EXT-X-VERSION:3\n" \o l \o "\nseg.ts\n#EXT-X-CUE-IN"} :
              l \in MalformedLines}

TitleTokens == {"1:00AM", "12:30pm", "|", " ", "Cup", "[A]"}
Titles == {Concat(ts, "") : ts \in SeqsUpTo(TitleTokens, MaxTitleTokens)}
TitleTexts == {"#EXTINF:-1," \o t \o "\nseg.ts" : t \in Titles}

DurTokens == {Concat(cs, "") : cs \in SeqsUpTo({"-", "1", "0", "."}, MaxDurLen)}
DurTexts ==
    UNION {{"#EXTINF:" \o d \o ",News\nseg.ts", "#EXTINF:" \o d \o ",1:00AM|Cup [A]\nseg.ts"} :
              d \in DurTokens}

EntryPool ==
    {"#EXTINF:-1,01:00AM|Finals (09/23/25) [Feed A]\nhttp://h/a.m3u8",
     "#EXTINF:-1,01:05AM|Finals (09/23/25) [Feed B]\nb.m3u8",
     "#EXTINF:8 tvg-logo=\"l.png\",(3/4/25) 9:30PM| Finals (09/23/25)\nc.m3u8",
     "#EXTINF:-1,2:00pm |Cup [X]\nd.m3u8",
     "#EXTINF:-1,3:00PM|Cup [Y]\nhttp://h/a.m3u8",
     "#EXTINF:7,News Update\nseg.ts"}
GuideTexts == {Concat(es, "\n") : es \in SeqsUpTo(EntryPool, MaxEntries)}

Texts == LineTexts \cup DatedTexts \cup MalformedTexts \cup TitleTexts \cup DurTexts \cup GuideTexts

-----------------------------------------------------------------------------
(* parse_m3u8 as a state machine: one action per branch of the while loop *)

Pass == [lines |-> lines, i |-> i, result |-> result, pc |-> pc, base_url |-> base_url]

ExtractIdle ==
    /\ net = <<>>
    /\ xurl = RootUrl
    /\ xpc = "idle"
    /\ xresult = <<>>
    /\ xk = 0
    /\ fetched = <<>>

Init ==
    /\ content \in Texts
    /\ base_url = RootUrl
    /\ lines = StartPass(content, base_url).lines
    /\ i = 0
    /\ result = EmptyResult(base_url)
    /\ pc = "scan"
    /\ ExtractIdle

AtBranch(branch) ==
    /\ pc = "scan"
    /\ i < Len(lines)
    /\ Branch(CurLine(Pass)) = branch

Becomes(st) ==
    /\ i' = st.i
    /\ result' = st.result
    /\ pc' = st.pc

ExtractVars == <<net, xurl, xpc, xresult, xk, fetched>>

VersionLine ==
    /\ AtBranch("version")
    /\ Becomes(VersionStep(Pass))
    /\ UNCHANGED <<content, base_url, lines, ExtractVars>>

TargetDurationLine ==
    /\ AtBranch("target_duration")
    /\ Becomes(TargetDurationStep(Pass))
    /\ UNCHANGED <<content, base_url, lines, ExtractVars>>

MediaSequenceLine ==
    /\ AtBranch("media_sequence")
    /\ Becomes(MediaSequenceStep(Pass))
    /\ UNCHANGED <<content, base_url, lines, ExtractVars>>

StreamInfLine ==
    /\ AtBranch("stream_inf")
    /\ Becomes(StreamInfStep(Pass))
    /\ UNCHANGED <<content, base_url, lines, ExtractVars>>

ExtinfLine ==
    /\ AtBranch("extinf")
    /\ Becomes(ExtinfStep(Pass))
    /\ UNCHANGED <<content, base_url, lines, ExtractVars>>

ProgramDateTimeLine ==
    /\ AtBranch("program_date_time")
    /\ Becomes(ProgramDateTimeStep(Pass))
    /\ UNCHANGED <<content, base_url, lines, ExtractVars>>

DateRangeLine ==
    /\ AtBranch("daterange")
    /\ Becomes(DateRangeStep(Pass))
    /\ UNCHANGED <<content, base_url, lines, ExtractVars>>

CueOutLine ==
    /\ AtBranch("cue_out")
    /\ Becomes(CueOutStep(Pass))
    /\ UNCHANGED <<content, base_url, lines, ExtractVars>>

CueInLine ==
    /\ AtBranch("cue_in")
    /\ Becomes(CueInStep(Pass))
    /\ UNCHANGED <<content, base_url, lines, ExtractVars>>

OtherLine ==
    /\ AtBranch("other")
    /\ Becomes(OtherStep(Pass))
    /\ UNCHANGED <<content, base_url, lines, ExtractVars>>

Return ==
    /\ pc = "scan"
    /\ i >= Len(lines)
    /\ pc' = "returned"
    /\ UNCHANGED <<content, base_url, lines, i, result, ExtractVars>>

Next ==
    \/ VersionLine
    \/ TargetDurationLine
    \/ MediaSequenceLine
    \/ StreamInfLine
    \/ ExtinfLine
    \/ ProgramDateTimeLine
    \/ DateRangeLine
    \/ CueOutLine
    \/ CueInLine
    \/ OtherLine
    \/ Return

Spec == Init /\ [][Next]_vars

-----------------------------------------------------------------------------
(* extract_all over a network.  net[u] is what session.get(u) yields for    *)
(* the whole run (a static snapshot): None when the request fails, else     *)
(* Some(text).                                                              *)

MaxStreams == 2        \* STREAM-INF/URI pairs of a generated master playlist

Exceptions == {"IndexError", "ValueError"}

LowUrl == "http://h/d/low.m3u8"
HiUrl == "http://h/hi.m3u8"
DeepUrl == "http://h/deep.m3u8"

VariantPool ==
    {"#EXT-X-STREAM-INF:BANDWIDTH=800,RESOLUTION=640x360,CODECS=\"avc1\"\nlow.m3u8",
     "#EXT-X-STREAM-INF:BANDWIDTH=1400\nhttp://h/hi.m3u8"}

RootPreludes ==
    {"",
     "#EXTM3U\n#EXT-X-VERSION:3\n#EXTINF:9.5,News Update\nseg.ts\n#EXTINF:-1,01:00AM|Finals [Feed A]\nhttp://h/a.m3u8\n"}

MasterTexts ==
    {pre \o Concat(vs, "\n") : pre \in RootPreludes, vs \in SeqsUpTo(VariantPool, MaxStreams)}

MediaText ==
    "#EXTM3U\n#EXT-X-TARGETDURATION:10\n#EXTINF:9.5,\ns1.ts\n#EXT-X-CUE-OUT:30\n#EXTINF:-1,2:00pm |Cup [X]\ns2.ts"
NestedMasterText == "#EXT-X-STREAM-INF:BANDWIDTH=500\nhttp://h/deep.m3u8\n#EXTINF:4,\ns3.ts"
BrokenText == "#EXTINF:4,\ns4.ts\n#EXT-X-TARGETDURATION:x"

ChildResponses == {None, Some(""), Some(MediaText), Some(NestedMasterText), Some(BrokenText)}

Nets ==
    {(RootUrl :> root) @@ (LowUrl :> low) @@ (HiUrl :> hi) @@ (DeepUrl :> deep) :
        root \in {None} \cup {Some(t) : t \in MasterTexts},
        low \in ChildResponses,
        hi \in ChildResponses,
        deep \in {None, Some(MediaText)}}

\* fetch_playlist: the text, or None on a RequestException
fetch_playlist(n, url) == IF url \in DOMAIN n THEN n[url] ELSE None

\* `if not content` / `if stream_content`: None and '' are both falsy
Truthy(resp) == resp # None /\ resp[1] # ""

\* lines 289-291
Attach(stream, stream_data) ==
    Field("segments", stream_data.segments)
    @@ Field("events", stream_data.events)
    @@ Field("metadata", stream_data.metadata)
    @@ stream

\* ResolveOne with the bug "recursion": the child is resolved like a root, its
\* own streams are fetched and kept on the variant
ResolveOne_Recursive(x, k, n) ==
    LET stream == x.result.streams[k]
        stream_content == fetch_playlist(n, stream.url)
        child == parse_m3u8(stream_content[1], stream.url)
        asked == [x EXCEPT !.fetched = Append(@, stream.url)]
        deeper == [j \in 1..Len(child.result.streams) |-> child.result.streams[j].url]
    IN  IF ~Truthy(stream_content) THEN asked
        ELSE IF child.pc # "returned" THEN [asked EXCEPT !.pc = child.pc]
        ELSE [asked EXCEPT !.result.streams[k] =
                              Field("streams", child.result.streams) @@ Attach(@, child.result),
                           !.fetched = @ \o deeper]

\* ResolveOne with the bug "shared target": the child's segments are also
\* merged into the root's own segments
ResolveOne_SharedTarget(x, k, n) ==
    LET stream == x.result.streams[k]
        stream_content == fetch_playlist(n, stream.url)
        child == parse_m3u8(stream_content[1], stream.url)
        asked == [x EXCEPT !.fetched = Append(@, stream.url)]
    IN  IF ~Truthy(stream_content) THEN asked
        ELSE IF child.pc # "returned" THEN [asked EXCEPT !.pc = child.pc]
        ELSE [asked EXCEPT !.result.streams[k] = Attach(@, child.result),
                           !.result.segments = @ \o child.result.segments]

\* lines 286-291: the body of the for loop, for stream k of x.result
ResolveOne(x, k, n) ==
    LET stream == x.result.streams[k]
        stream_content == fetch_playlist(n, stream.url)
        child == parse_m3u8(stream_content[1], stream.url)
        asked == [x EXCEPT !.fetched = Append(@, stream.url)]
    IN  IF ~Truthy(stream_content) THEN asked
        ELSE IF child.pc # "returned" THEN [asked EXCEPT !.pc = child.pc]
        ELSE [asked EXCEPT !.result.streams[k] = Attach(@, child.result)]

Extract == [result |-> xresult, pc |-> xpc, fetched |-> fetched]

ParseIdle ==
    /\ content = ""
    /\ base_url = RootUrl
    /\ lines = <<>>
    /\ i = 0
    /\ result = EmptyResult(RootUrl)
    /\ pc = "idle"

InitExtract ==
    /\ net \in Nets
    /\ xurl = RootUrl
    /\ xpc = "start"
    /\ xresult = <<>>
    /\ xk = 0
    /\ fetched = <<>>
    /\ ParseIdle

ParseVars == <<content, base_url, lines, i, result, pc>>

\* lines 276-278
FetchRoot ==
    /\ xpc = "start"
    /\ fetched' = Append(fetched, xurl)
    /\ xpc' = IF Truthy(fetch_playlist(net, xurl)) THEN "fetched" ELSE "error"
    /\ UNCHANGED <<ParseVars, net, xurl, xresult, xk>>

\* lines 280-285
ParseRoot ==
    /\ xpc = "fetched"
    /\ LET root == parse_m3u8(fetch_playlist(net, xurl)[1], xurl)
       IN  IF root.pc # "returned"
           THEN xpc' = root.pc /\ UNCHANGED <<xresult, xk>>
           ELSE xpc' = "resolve" /\ xresult' = root.result /\ xk' = 1
    /\ UNCHANGED <<ParseVars, net, xurl, fetched>>

\* lines 285-291: one iteration of the for loop
ResolveStream ==
    /\ xpc = "resolve"
    /\ xk <= Len(xresult.streams)
    /\ xresult' = ResolveOne(Extract, xk, net).result
    /\ xpc' = ResolveOne(Extract, xk, net).pc
    /\ fetched' = ResolveOne(Extract, xk, net).fetched
    /\ xk' = xk + 1
    /\ UNCHANGED <<ParseVars, net, xurl>>

\* line 293
ReturnResult ==
    /\ xpc = "resolve"
    /\ xk > Len(xresult.streams)
    /\ xpc' = "returned"
    /\ UNCHANGED <<ParseVars, net, xurl, xresult, xk, fetched>>

NextExtract == FetchRoot \/ ParseRoot \/ ResolveStream \/ ReturnResult

SpecExtract == InitExtract /\ [][NextExtract]_vars

-----------------------------------------------------------------------------
(* Vocabulary of the properties *)

\* a channel entry is the event appended at line 108: it carries no 'type'
IsEntry(ev) == "type" \notin DOMAIN ev
ChannelEntries(events) == SelectSeq(events, IsEntry)
IsDirective(l) == startswith(strip(l), "#")
IsExtinf(l) == startswith(strip(l), "#EXTINF")
Range(f) == {f[x] : x \in DOMAIN f}

-----------------------------------------------------------------------------
(* C1 *)

ExtinfWithUri == {k \in 1..(Len(lines) - 1) : IsExtinf(lines[k]) /\ ~IsDirective(lines[k + 1])}

\* C1: when parse_m3u8 returns, len(segments) plus the number of channel
\* entries in events equals the number of #EXTINF lines whose next line is
\* not a directive.
C1_EntriesCountExtinfWithUri ==
    pc = "returned" =>
        Len(result.segments) + Len(ChannelEntries(result.events)) = Cardinality(ExtinfWithUri)

-----------------------------------------------------------------------------
(* C2 *)

EntriesTitled(t) ==
    {k \in DOMAIN result.events : IsEntry(result.events[k]) /\ result.events[k].event_title = t}

RECURSIVE RefsFrom(_, _)
RefsFrom(k, t) ==
    IF k > Len(result.events) THEN <<>>
    ELSE IF k \in EntriesTitled(t)
         THEN <<[channel_name |-> get(result.events[k], "channel_name"),
                 url |-> Some(result.events[k].url),
                 logo |-> result.events[k].logo,
                 duration |-> result.events[k].duration]>> \o RefsFrom(k + 1, t)
         ELSE RefsFrom(k + 1, t)

\* C2: at every step of the pass, each group of grouped_events holds the
\* event_time, event_date and category of the first channel entry with its
\* title (in line order), and its channels are one reference per entry with
\* that title, in encounter order.
C2_FirstEntrySeedsGroup ==
    \A t \in DOMAIN result.grouped_events :
        LET g == result.grouped_events[t]
            first == result.events[Min(EntriesTitled(t))]
        IN  /\ EntriesTitled(t) # {}
            /\ g.event_title = t
            /\ g.event_time = get(first, "event_time")
            /\ g.event_date = get(first, "event_date")
            /\ g.category = get(first, "category")
            /\ g.channels = RefsFrom(1, t)

\* a group with two entries whose time and date differ from each other
C2_Witness ==
    \E t \in DOMAIN result.grouped_events :
        \E a, b \in EntriesTitled(t) :
            /\ a < b
            /\ get(result.events[a], "event_time") # get(result.events[b], "event_time")
            /\ get(result.events[a], "event_date") # get(result.events[b], "event_date")

-----------------------------------------------------------------------------
(* C3 *)

\* C3: parse_m3u8 never raises, whatever the text.
C3_ParseNeverRaises == pc \notin Exceptions

-----------------------------------------------------------------------------
(* C5 *)

FinalsText ==
    "#EXTINF:-1,01:00AM|Finals (09/23/25) [Feed A]\nhttp://h/a.m3u8\n#EXTINF:-1,01:05AM|Finals (09/23/25) [Feed B]\nb.m3u8"

\* C5 as stated: the two Finals entries yield one group keyed "Finals" with
\* two channels and the first entry's event_time.
C5_FinalsKeyedFinals ==
    (content = FinalsText /\ pc = "returned") =>
        /\ DOMAIN result.grouped_events = {"Finals"}
        /\ Len(result.grouped_events["Finals"].channels) = 2
        /\ result.grouped_events["Finals"].event_time = Some("01:00AM")

\* C5 as amended: the two Finals entries yield one group keyed
\* "Finals (09/23/25)" (the date stays in event_title and is also captured as
\* event_date), with two channels and the first entry's event_time.
C5_FinalsKeyedWithDate ==
    (content = FinalsText /\ pc = "returned") =>
        /\ DOMAIN result.grouped_events = {"Finals (09/23/25)"}
        /\ Len(result.grouped_events["Finals (09/23/25)"].channels) = 2
        /\ result.grouped_events["Finals (09/23/25)"].channels[1].channel_name = Some("Feed A")
        /\ result.grouped_events["Finals (09/23/25)"].channels[2].channel_name = Some("Feed B")
        /\ result.grouped_events["Finals (09/23/25)"].event_time = Some("01:00AM")
        /\ result.grouped_events["Finals (09/23/25)"].event_date = Some("09/23/25")

C5_Witness == content = FinalsText /\ pc = "returned"

-----------------------------------------------------------------------------
(* C6 *)

\* s is H:MM or HH:MM followed by AM or PM in any case
IsTimeToken(s) ==
    /\ Len(s) \in {6, 7}
    /\ AllIn(Upto(s, Len(s) - 5), Digit)
    /\ ChAt(s, Len(s) - 4) = ":"
    /\ AllIn(SubSeq(s, Len(s) - 3, Len(s) - 2), Digit)
    /\ SubSeq(s, Len(s) - 1, Len(s)) \in {"AM", "Am", "aM", "am", "PM", "Pm", "pM", "pm"}

TokenEnds(t) ==
    {b \in 1..Len(t) : \E a \in {b - 5, b - 6} : a >= 1 /\ IsTimeToken(SubSeq(t, a, b))}

\* a time token with a pipe anywhere after it
TimeThenPipe(t) ==
    \E b \in TokenEnds(t) : \E c \in (b + 1)..Len(t) : ChAt(t, c) = "|"

\* a time token with a pipe after it, only whitespace in between
TimeThenPipeAdjacent(t) ==
    \E b \in TokenEnds(t) : \E c \in (b + 1)..Len(t) :
        /\ ChAt(t, c) = "|"
        /\ \A j \in (b + 1)..(c - 1) : ChAt(t, j) \in Space

Last(seq) == seq[Len(seq)]

\* C6 as stated, on a playlist of one EXTINF line and its URI line: the title
\* is an event entry iff a pipe occurs anywhere after a time token, and a
\* title failing that test goes to segments and adds no event or group.
C6_PipeAnywhere ==
    (pc = "returned" /\ Len(lines) = 2 /\ IsExtinf(lines[1])) =>
        LET t == ExtinfTitle(strip(lines[1]))
        IN  /\ is_event_entry(t) <=> TimeThenPipe(t)
            /\ IF TimeThenPipe(t)
               THEN Len(ChannelEntries(result.events)) = 1 /\ result.segments = <<>>
               ELSE /\ Len(result.segments) = 1
                    /\ result.events = <<>>
                    /\ result.grouped_events = <<>>

\* C6 as amended: is_event_entry(title) holds iff the title contains a time
\* token followed, after whitespace only, by a pipe; what the pass records for
\* an EXTINF line goes to segments (with the title, nothing added to events or
\* grouped_events) when the title is absent or fails that test, and to events
\* and grouped_events otherwise.
C6_PipeAfterWhitespaceOnly ==
    [][(AtBranch("extinf") /\ pc' = "scan") =>
        LET t == ExtinfTitle(CurLine(Pass))
            n == IF HasNext(Pass) THEN 1 ELSE 0
        IN  /\ is_event_entry(t) <=> TimeThenPipeAdjacent(t)
            /\ IF TimeThenPipeAdjacent(t)
               THEN /\ result'.segments = result.segments
                    /\ Len(result'.events) = Len(result.events) + n
                    /\ n = 1 => IsEntry(Last(result'.events))
                    /\ n = 1 => Last(result'.events).event_title \in DOMAIN result'.grouped_events
               ELSE /\ result'.events = result.events
                    /\ result'.grouped_events = result.grouped_events
                    /\ Len(result'.segments) = Len(result.segments) + n
                    /\ n = 1 => SubSeq(result'.segments, 1, Len(result.segments)) = result.segments
                    /\ n = 1 => get(Last(result'.segments), "title") = (IF t = "" THEN None ELSE Some(t))
      ]_vars

\* a title with a time token and a later, non-adjacent pipe went to segments
C6_Witness ==
    /\ pc = "returned"
    /\ \E k \in DOMAIN result.segments :
          /\ "title" \in DOMAIN result.segments[k]
          /\ TimeThenPipe(result.segments[k].title)

-----------------------------------------------------------------------------
(* C7 *)

\* the pass ended on a paired directive at the last line: the cursor, which
\* that branch advances by two, stands one past the end
LastLinePaired == pc = "returned" /\ i = Len(lines) + 1

Recorded == Range(result.streams) \cup Range(result.segments) \cup Range(ChannelEntries(result.events))

\* C7 as stated: a paired directive on the last line is recorded without url.
C7_LastPairedRecordedWithoutUrl ==
    LastLinePaired => \E e \in Recorded : "url" \notin DOMAIN e

\* C7 as amended: a paired directive the pass reaches on the last line is not
\* recorded (streams, segments, events and grouped_events stay as they are),
\* and the missing line raises nothing: the step fails only where parse_extinf
\* does, on the duration token.
C7_LastPairedNotRecorded ==
    [][(AtBranch("stream_inf") \/ AtBranch("extinf")) /\ i = Len(lines) - 1 =>
        /\ result' = result
        /\ pc' = "scan" \/ (pc' = "ValueError" /\ IsExtinf(lines[i + 1])
                            /\ ~FloatOk(DurationToken(CurLine(Pass))))
      ]_vars

C7_Witness == LastLinePaired /\ Len(lines) >= 2 /\ Recorded # {}

-----------------------------------------------------------------------------
(* C8 *)

MinusOne == [neg |-> TRUE, mant |-> 1, scale |-> 0]

AllChannels == UNION {Range(result.grouped_events[t].channels) : t \in DOMAIN result.grouped_events}

\* C8 as stated: no segment, channel entry or channel reference carries the
\* duration -1.0.
C8_NoMinusOneDuration ==
    /\ \A e \in Range(result.segments) : get(e, "duration") # Some(MinusOne)
    /\ \A e \in Range(ChannelEntries(result.events)) : e.duration # Some(MinusOne)
    /\ \A c \in AllChannels : c.duration # Some(MinusOne)

\* the line is #EXTINF: followed by exactly the token tok
HasToken(line, tok) ==
    /\ startswith(line, "#EXTINF:" \o tok)
    /\ ChAt(line, 9 + Len(tok)) \notin DurChars

\* the duration of the entry the step has just appended
AppendedDuration ==
    IF Len(result'.segments) > Len(result.segments)
    THEN <<get(Last(result'.segments), "duration")>>
    ELSE <<Last(result'.events).duration,
           Last(result'.grouped_events[Last(result'.events).event_title].channels).duration>>

\* C8 as amended: an EXTINF line whose duration token is exactly "-1" yields a
\* segment or channel entry (and channel reference) with an absent duration;
\* another spelling of minus one ("-1.", "-1.0", "-01") is converted, and the
\* entry carries -1.0.
C8_SentinelIsExactToken ==
    [][(AtBranch("extinf") /\ HasNext(Pass) /\ pc' = "scan") =>
        /\ HasToken(CurLine(Pass), "-1") => Range(AppendedDuration) = {None}
        /\ (\E tok \in {"-1.", "-1.0", "-01"} : HasToken(CurLine(Pass), tok))
              => Range(AppendedDuration) = {Some(MinusOne)}
      ]_vars

\* a channel entry and its reference made from a line with the token "-1"
C8_Witness ==
    /\ pc = "returned"
    /\ Len(lines) = 2
    /\ HasToken(strip(lines[1]), "-1")
    /\ Len(ChannelEntries(result.events)) = 1
    /\ Cardinality(AllChannels) = 1

-----------------------------------------------------------------------------
(* Vocabulary of the properties of extract_all *)

Resolved == {"segments", "events", "metadata"}
StreamKeys == {"type", "bandwidth", "resolution", "codecs", "url"}

\* the root playlist has been parsed into xresult
RootParsed == xpc \in {"resolve", "returned"} \cup Exceptions /\ xresult # <<>>

\* the passes over the root text and over the text behind a stream's url
RootPass == parse_m3u8(fetch_playlist(net, xurl)[1], xurl)
ChildPass(stream) == parse_m3u8(fetch_playlist(net, stream.url)[1], stream.url)

Restrict(f, keys) == [k \in DOMAIN f \cap keys |-> f[k]]

\* the stream carries exactly the three child fields of the pass over its url
AttachedFromChild(stream) ==
    /\ Resolved \subseteq DOMAIN stream
    /\ LET child == ChildPass(stream).result
       IN  /\ stream.segments = child.segments
           /\ stream.events = child.events
           /\ stream.metadata = child.metadata

\* the root model's own fields are those of the pass over the root text
RootIntact ==
    LET root == RootPass.result
    IN  /\ xresult.segments = root.segments
        /\ xresult.events = root.events
        /\ xresult.grouped_events = root.grouped_events
        /\ xresult.metadata = root.metadata
        /\ Len(xresult.streams) = Len(root.streams)
        /\ \A k \in DOMAIN xresult.streams :
              Restrict(xresult.streams[k], StreamKeys) = root.streams[k]

-----------------------------------------------------------------------------
(* C4 *)

\* C4: extract_all on a master playlist ends by returning the model, whatever
\* variants fail: a variant whose fetch failed has no segments, events or
\* metadata, a variant whose fetch succeeded has those of its child model, and
\* the root's own streams, segments, events and metadata are unchanged.
C4_PartialFailureReturnsModel ==
    (RootParsed /\ xresult.streams # <<>> /\ xpc # "resolve") =>
        /\ xpc = "returned"
        /\ RootIntact
        /\ \A k \in DOMAIN xresult.streams :
              IF fetch_playlist(net, xresult.streams[k].url) = None
              THEN DOMAIN xresult.streams[k] \cap Resolved = {}
              ELSE AttachedFromChild(xresult.streams[k])

-----------------------------------------------------------------------------
(* C9 *)

Requests == <<xurl>> \o [k \in 1..Len(xresult.streams) |-> xresult.streams[k].url]

\* C9: extract_all asks for the root url once and then for the urls of the
\* root's streams, one each and in order, and for nothing else; a resolved
\* variant carries the segments, events and metadata of the pass over its own
\* text and no key besides, also when that text is itself a master playlist.
C9_OneLevelOnly ==
    /\ ~RootParsed => fetched \in {<<>>, <<xurl>>}
    /\ RootParsed =>
          /\ Len(fetched) <= 1 + Len(xresult.streams)
          /\ fetched = SubSeq(Requests, 1, Len(fetched))
          /\ DeepUrl \notin Range(fetched)
          /\ RootIntact
          /\ \A k \in DOMAIN xresult.streams :
                /\ DOMAIN xresult.streams[k] \subseteq StreamKeys \cup Resolved
                /\ DOMAIN xresult.streams[k] \cap Resolved # {}
                      => AttachedFromChild(xresult.streams[k])

\* extract_all returned after resolving a variant whose text is a master playlist
C9_Witness ==
    /\ xpc = "returned"
    /\ \E k \in DOMAIN xresult.streams :
          /\ Resolved \subseteq DOMAIN xresult.streams[k]
          /\ ChildPass(xresult.streams[k]).result.streams # <<>>

-----------------------------------------------------------------------------
(* C10 *)

Orders(n) == {o \in [1..n -> 1..n] : \A a, b \in 1..n : a # b => o[a] # o[b]}

\* the for loop of lines 285-291 run over the streams in the given order
RECURSIVE ResolveInOrder(_, _)
ResolveInOrder(x, order) ==
    IF order = <<>> \/ x.pc # "resolve" THEN x
    ELSE ResolveInOrder(ResolveOne(x, Head(order), net), Tail(order))

Parsed == [result |-> RootPass.result, pc |-> "resolve", fetched |-> <<xurl>>]

\* resolving stream k from the present state touches stream k's three fields only
WritesOwnSlot(k) ==
    LET after == ResolveOne(Extract, k, net).result
    IN  /\ \A j \in DOMAIN xresult.streams : j # k => after.streams[j] = xresult.streams[j]
        /\ Restrict(after.streams[k], StreamKeys) = Restrict(xresult.streams[k], StreamKeys)
        /\ \/ after.streams[k] = xresult.streams[k]
           \/ /\ Truthy(fetch_playlist(net, xresult.streams[k].url))
              /\ after.streams[k] = Attach(Restrict(xresult.streams[k], StreamKeys),
                                           ChildPass(xresult.streams[k]).result)
        /\ [after EXCEPT !.streams = <<>>] = [xresult EXCEPT !.streams = <<>>]

\* C10: the streams resolved in any order give the model that extract_all
\* returns (and every order raises when extract_all raises); resolving one
\* variant writes that variant's segments, events and metadata, a value that
\* depends on its own url alone, and leaves the other variants and the root's
\* segments, events, grouped_events and metadata as they are.
C10_AnyOrderSameModel ==
    /\ xpc = "returned" =>
          LET start == Parsed
          IN  \A o \in Orders(Len(xresult.streams)) :
                  LET end == ResolveInOrder(start, o)
                  IN  end.pc = "resolve" /\ end.result = xresult
    /\ (xpc \in Exceptions /\ RootParsed) =>
          LET start == Parsed
          IN  \A o \in Orders(Len(xresult.streams)) :
                  ResolveInOrder(start, o).pc \in Exceptions
    /\ xpc = "resolve" => \A k \in DOMAIN xresult.streams : WritesOwnSlot(k)

\* extract_all returned two resolved variants whose child models differ
C10_Witness ==
    /\ xpc = "returned"
    /\ \E a, b \in DOMAIN xresult.streams :
          /\ a < b
          /\ Resolved \subseteq DOMAIN xresult.streams[a]
          /\ Resolved \subseteq DOMAIN xresult.streams[b]
          /\ xresult.streams[a].segments # xresult.streams[b].segments

-----------------------------------------------------------------------------
(* C11 *)

\* the urls stored on streams, segments and channel entries so far
StoredUrls ==
    {st.url : st \in Range(result.streams)}
        \cup {sg.url : sg \in Range(result.segments)}
        \cup {ev.url : ev \in Range(ChannelEntries(result.events))}

IsCueIn(ev) == "type" \in DOMAIN ev /\ ev.type = "cue_in"
CueInLines == {k \in DOMAIN lines : startswith(strip(lines[k]), "#EXT-X-CUE-IN")}

\* C11: a directive line is never stored as the url of a stream, segment or
\* channel entry, and it is still processed as its own directive: when the
\* pass returns, every #EXT-X-CUE-IN line of the text has given its cue_in
\* event, also one that directly follows an #EXT-X-STREAM-INF or #EXTINF line.
C11_DirectiveNeverTakenAsUri ==
    /\ \A k \in DOMAIN lines :
          IsDirective(lines[k]) => ResolveUrl(base_url, strip(lines[k])) \notin StoredUrls
    /\ pc = "returned" =>
          Len(SelectSeq(result.events, IsCueIn)) = Cardinality(CueInLines)

-----------------------------------------------------------------------------
(* C12 *)

TitleFields == {"event_time", "event_date", "channel_name", "event_title"}

\* C12: every field that parse_event_title gave a channel entry is a
\* non-empty string (a field the title does not have is absent, never ""),
\* and no key of grouped_events is the empty string.
C12_NoEmptyEventField ==
    /\ \A ev \in Range(ChannelEntries(result.events)) :
          \A f \in TitleFields \cap DOMAIN ev : ev[f] # ""
    /\ "" \notin DOMAIN result.grouped_events

-----------------------------------------------------------------------------
(* C13 *)

RECURSIVE TotalChannels(_)
TotalChannels(keys) ==
    IF keys = {} THEN 0
    ELSE LET t == CHOOSE x \in keys : TRUE
         IN  Len(result.grouped_events[t].channels) + TotalChannels(keys \ {t})

EntryIndexes == {k \in DOMAIN result.events : IsEntry(result.events[k])}

\* the groups whose channels hold the url
GroupsWithUrl(u) ==
    {t \in DOMAIN result.grouped_events :
        \E c \in Range(result.grouped_events[t].channels) : c.url = Some(u)}

\* the rank of entry k among the entries with its title, in line order
RankInGroup(k) ==
    Cardinality({j \in EntriesTitled(result.events[k].event_title) : j <= k})

ChannelsCounted ==
    TotalChannels(DOMAIN result.grouped_events) = Cardinality(EntryIndexes)

\* each entry's reference stands in the group of its title, at the entry's rank
ChannelsInEntryOrder ==
    \A k \in EntryIndexes :
        LET t == result.events[k].event_title
        IN  /\ t \in DOMAIN result.grouped_events
            /\ RankInGroup(k) <= Len(result.grouped_events[t].channels)
            /\ result.grouped_events[t].channels[RankInGroup(k)].url = Some(result.events[k].url)

\* C13 as stated: at every step of the pass the groups hold as many channels
\* as events holds channel entries, every entry's url appears in the group
\* keyed by its event_title and in no other group, and each group's channels
\* are in the line order of their entries.
C13_UrlInOwnGroupOnly ==
    /\ ChannelsCounted
    /\ ChannelsInEntryOrder
    /\ \A k \in EntryIndexes :
          GroupsWithUrl(result.events[k].url) = {result.events[k].event_title}

\* C13 amended: at every step of the pass the groups hold as many channels as
\* events holds channel entries, every entry has its reference in the group
\* keyed by its event_title at the entry's rank among the entries with that
\* title, and a url is found in exactly the groups of the entries that carry it.
C13_GroupsMirrorEntries ==
    /\ ChannelsCounted
    /\ ChannelsInEntryOrder
    /\ \A t \in DOMAIN result.grouped_events :
          Len(result.grouped_events[t].channels) = Cardinality(EntriesTitled(t))
    /\ \A k \in EntryIndexes :
          GroupsWithUrl(result.events[k].url) =
              {result.events[j].event_title :
                  j \in {j \in EntryIndexes : result.events[j].url = result.events[k].url}}

\* three entries filed, two of them with one url under different titles
C13_Witness ==
    /\ Cardinality(EntryIndexes) >= 3
    /\ \E a, b \in EntryIndexes :
          /\ a < b
          /\ result.events[a].url = result.events[b].url
          /\ result.events[a].event_title # result.events[b].event_title
    /\ \E t \in DOMAIN result.grouped_events : Len(result.grouped_events[t].channels) >= 2

=============================================================================
